---- MODULE Spec2Model ----
(***************************************************************************)
(* The OHLCV data-feed adapter of the chart wrapper (MyTradingView) and    *)
(* the pure functions it is built from: the feed normalizer, the           *)
(* resolution aggregator and the three-way merger.                         *)
(*                                                                         *)
(* A bar is a record [time, open, high, low, close, volume]; a series is a *)
(* sequence of bars.  Times are seconds, prices and volumes are integers   *)
(* (the code's are floating point; rounding is outside this model).        *)
(***************************************************************************)
EXTENDS Integers, Sequences, FiniteSets, TLC

VARIABLES
  phase,         \* position of the pure-function specifications: "init", "done", ...
  feed,          \* a raw feed payload (IDatafeed): [hasData, ohlcv_list]
  ohlcv,         \* the normalizer's result
  minuteData,    \* the minute series (mergeOhlcv argument / component prop)
  hourData,      \* the hour series
  dayData,       \* the day series
  merged,        \* mergeOhlcv's result
  rawBars,       \* aggregateBars' argument
  resolution,    \* aggregateBars' resolution
  aggregated,    \* aggregateBars(rawBars, resolution)
  reaggregated,  \* aggregateBars(aggregated, resolution)
  compareBarsCache, \* the module-level Map: cache key -> merged series
  setCount,      \* per cache key, how often compareBarsCache.set has run
  calls,         \* the adapter calls made so far, each with its position
  chartIsReady,  \* the component's chartIsReady state
  intervalId,    \* the intervalId ref (0: null)
  intervals,     \* the ids of the intervals that are active
  listeners,     \* the widget's subscriptions not yet unsubscribed
  nSubscribed,   \* subscribeBars calls so far
  realtimeCalls, \* onRealtimeCallback invocations so far (capped)
  lateRealtime,  \* onRealtimeCallback ran after the last unsubscribe
  removed,       \* the effect cleanup has removed the widget
  codec,         \* a run of the compare ticker codec: arguments, ticker, parse result
  format         \* a run of formatCryptoPrice: price, signPositive, output

fnVars == <<phase, feed, ohlcv, merged, rawBars, resolution, aggregated, reaggregated>>
propVars == <<minuteData, hourData, dayData>>
feedVars == <<compareBarsCache, setCount, calls, chartIsReady>>
timerVars == <<intervalId, intervals, listeners, nSubscribed, realtimeCalls,
               lateRealtime, removed>>

textVars == <<codec, format>>

vars == <<fnVars, propVars, feedVars, timerVars, textVars>>

-----------------------------------------------------------------------------
(* Bounds of the model.                                                    *)

\* Times of the sampled bars are 0, 300, ..., 300 * MaxTick seconds.
MaxTick == 3
\* Longest series given to mergeOhlcv.
MaxMergeLen == 2
\* Longest series given to aggregateBars.
MaxAggLen == 3
\* Longest ohlcv_list of a raw feed payload.
MaxFeedLen == 3
\* Adapter calls in a run of the data feed (Spec).
MaxCalls == 2
\* getBars calls in a run of SpecBars.
MaxBarsCalls == 1
\* subscribeBars calls in a run.
MaxSubscriptions == 3
\* onRealtimeCallback invocations counted in a run.
MaxRealtimeCalls == 2

-----------------------------------------------------------------------------
(* Generic helpers.                                                        *)

Max(a, b) == IF a >= b THEN a ELSE b
Min(a, b) == IF a <= b THEN a ELSE b

Range(s) == {s[n] : n \in DOMAIN s}

\* All sequences over S of length at most n.
SeqsUpTo(S, n) == UNION {[1..m -> S] : m \in 0..n}

Times(s) == {s[n].time : n \in DOMAIN s}

\* The bars of s whose time is t, in order.
BarsAt(s, t) == SelectSeq(s, LAMBDA b : b.time = t)

Ascending(s) == \A n \in 1..(Len(s) - 1) : s[n].time <= s[n + 1].time
StrictlyAscending(s) == \A n \in 1..(Len(s) - 1) : s[n].time < s[n + 1].time

RECURSIVE SumVolume(_)
SumVolume(s) == IF s = <<>> THEN 0 ELSE Head(s).volume + SumVolume(Tail(s))

SampleTimes == {300 * n : n \in 0..MaxTick}

\* (open, high, low, close, volume) of the sampled bars.
Shapes == {<<1, 3, 1, 2, 1>>, <<2, 2, 1, 1, 2>>, <<3, 4, 2, 4, 3>>}

MkBar(t, sh) == [time |-> t, open |-> sh[1], high |-> sh[2], low |-> sh[3],
                 close |-> sh[4], volume |-> sh[5]]

SampleBars == {MkBar(t, sh) : t \in SampleTimes, sh \in Shapes}

-----------------------------------------------------------------------------
(* chartSecondsPerResolution and aggregateBars.                            *)

chartSecondsPerResolution ==
  [r \in {"10", "15", "30", "60", "240", "480", "720", "1440",
          "D", "1D", "3D", "W", "1W", "M", "1M"} |->
     CASE r = "10" -> 10 * 60
       [] r = "15" -> 15 * 60
       [] r = "30" -> 30 * 60
       [] r = "60" -> 60 * 60
       [] r = "240" -> 240 * 60
       [] r = "480" -> 480 * 60
       [] r = "720" -> 720 * 60
       [] r = "1440" -> 24 * 60 * 60
       [] r = "D" -> 24 * 60 * 60
       [] r = "1D" -> 24 * 60 * 60
       [] r = "3D" -> 3 * 24 * 60 * 60
       [] r = "W" -> 7 * 24 * 60 * 60
       [] r = "1W" -> 7 * 24 * 60 * 60
       [] r = "M" -> 30 * 24 * 60 * 60
       [] r = "1M" -> 30 * 24 * 60 * 60]

\* chartSecondsPerResolution[resolution] || 300
intervalSec(res) ==
  IF res \in DOMAIN chartSecondsPerResolution
    THEN chartSecondsPerResolution[res]
    ELSE 300

\* A plausible slip: the bucket labelled by its end instead of its start.
bucketTimeEnd(t, interval) == (t \div interval) * interval + interval

\* Math.floor(bar.time / intervalSec) * intervalSec
bucketTime(t, interval) == (t \div interval) * interval

\* A plausible slip: "agg.volume = bar.volume" for "agg.volume += bar.volume".
foldBarLastVolume(agg, bar) ==
  [agg EXCEPT !.high = Max(agg.high, bar.high),
              !.low = Min(agg.low, bar.low),
              !.close = bar.close,
              !.volume = bar.volume]

\* A plausible slip: "agg.close = bar.close" left out.
foldBarKeepClose(agg, bar) ==
  [agg EXCEPT !.high = Max(agg.high, bar.high),
              !.low = Min(agg.low, bar.low),
              !.volume = agg.volume + bar.volume]

\* The else branch of the loop: a further bar of an existing bucket.
foldBar(agg, bar) ==
  [agg EXCEPT !.high = Max(agg.high, bar.high),
              !.low = Min(agg.low, bar.low),
              !.close = bar.close,
              !.volume = agg.volume + bar.volume]

\* One iteration of "for (const bar of rawBars)"; buckets is the Map's values
\* in insertion order.
bucketStep(buckets, bar, interval) ==
  LET bt == bucketTime(bar.time, interval)
  IN IF \A n \in DOMAIN buckets : buckets[n].time # bt
       THEN Append(buckets, [bar EXCEPT !.time = bt])
       ELSE [n \in DOMAIN buckets |->
               IF buckets[n].time = bt THEN foldBar(buckets[n], bar)
                                       ELSE buckets[n]]

RECURSIVE bucketLoop(_, _, _)
bucketLoop(buckets, bars, interval) ==
  IF bars = <<>> THEN buckets
  ELSE bucketLoop(bucketStep(buckets, Head(bars), interval), Tail(bars), interval)

\* Array.prototype.sort((a, b) => a.time - b.time): a stable sort by time.
RECURSIVE insertByTime(_, _)
insertByTime(sorted, bar) ==
  IF sorted = <<>> THEN <<bar>>
  ELSE IF bar.time < Head(sorted).time THEN <<bar>> \o sorted
  ELSE <<Head(sorted)>> \o insertByTime(Tail(sorted), bar)

\* A plausible slip: the .sort call left out.
sortByTimeOmitted(s) == s

RECURSIVE sortByTime(_)
sortByTime(s) ==
  IF s = <<>> THEN <<>>
  ELSE insertByTime(sortByTime(SubSeq(s, 1, Len(s) - 1)), s[Len(s)])

aggregateBars(bars, res) == sortByTime(bucketLoop(<<>>, bars, intervalSec(res)))

\* The objects behind the loop.  A bucket is [bar, ref]: its bar and the
\* position in rawBars of the object it is, 0 for an object of its own; what
\* the loop writes to a bucket that is an input bar, it writes to rawBars.

\* A plausible slip: "bar.time = bucketTime; buckets.set(bucketTime, bar)".
newBucketShared(bar, n, bt) == [bar |-> [bar EXCEPT !.time = bt], ref |-> n]

\* buckets.set(bucketTime, { ...bar, time: bucketTime }): a copy of the bar
newBucket(bar, n, bt) == [bar |-> [bar EXCEPT !.time = bt], ref |-> 0]

\* One iteration of the loop, for the bar at position n.
heapStep(buckets, bar, n, interval) ==
  LET bt == bucketTime(bar.time, interval)
  IN IF \A i \in DOMAIN buckets : buckets[i].bar.time # bt
       THEN Append(buckets, newBucket(bar, n, bt))
       ELSE [i \in DOMAIN buckets |->
               IF buckets[i].bar.time = bt
                 THEN [buckets[i] EXCEPT !.bar = foldBar(@, bar)]
                 ELSE buckets[i]]

RECURSIVE heapLoop(_, _, _, _)
heapLoop(buckets, bars, n, interval) ==
  IF n > Len(bars) THEN buckets
  ELSE heapLoop(heapStep(buckets, bars[n], n, interval), bars, n + 1, interval)

\* rawBars as aggregateBars(rawBars, resolution) leaves it.
aggregateEffect(bars, res) ==
  LET buckets == heapLoop(<<>>, bars, 1, intervalSec(res))
  IN [n \in DOMAIN bars |->
        IF \E i \in DOMAIN buckets : buckets[i].ref = n
          THEN buckets[CHOOSE i \in DOMAIN buckets : buckets[i].ref = n].bar
          ELSE bars[n]]

-----------------------------------------------------------------------------
(* getOhlcvFromFeed (chart wrapper) and getOhlcvData (token page).         *)

\* item => ({time: item[0], open: item[1], ...})
tupleToBar(item) == [time |-> item[1], open |-> item[2], high |-> item[3],
                     low |-> item[4], close |-> item[5], volume |-> item[6]]

mapTuples(list) == [n \in DOMAIN list |-> tupleToBar(list[n])]

getOhlcvFromFeed(f) ==
  IF ~f.hasData THEN <<>> ELSE sortByTime(mapTuples(f.ohlcv_list))

getOhlcvData(f) ==
  IF ~f.hasData THEN <<>> ELSE sortByTime(mapTuples(f.ohlcv_list))

-----------------------------------------------------------------------------
(* mergeOhlcv.                                                             *)

Infinity == 1000000000

headTime(s, idx) == IF idx <= Len(s) THEN s[idx].time ELSE Infinity

\* The while loop of mergeOhlcv; i, j, k are the cursors (from 1 here).
RECURSIVE mergeLoop(_, _, _, _, _, _, _)
mergeLoop(minuteD, hourD, dayD, i, j, k, acc) ==
  IF ~(i <= Len(minuteD) \/ j <= Len(hourD) \/ k <= Len(dayD)) THEN acc
  ELSE
    LET tMin == headTime(minuteD, i)
        tHour == headTime(hourD, j)
        tDay == headTime(dayD, k)
        minT == Min(tMin, Min(tHour, tDay))
    IN IF tMin = minT /\ tHour = minT /\ tDay = minT
         THEN mergeLoop(minuteD, hourD, dayD, i + 1, j + 1, k + 1, Append(acc, dayD[k]))
       ELSE IF tHour = minT /\ tMin = minT
         THEN mergeLoop(minuteD, hourD, dayD, i + 1, j + 1, k, Append(acc, hourD[j]))
       ELSE IF tDay = minT /\ tHour = minT
         THEN mergeLoop(minuteD, hourD, dayD, i, j + 1, k + 1, Append(acc, dayD[k]))
       ELSE IF tDay = minT
         THEN mergeLoop(minuteD, hourD, dayD, i, j, k + 1, Append(acc, dayD[k]))
       ELSE IF tHour = minT
         THEN mergeLoop(minuteD, hourD, dayD, i, j + 1, k, Append(acc, hourD[j]))
       ELSE mergeLoop(minuteD, hourD, dayD, i + 1, j, k, Append(acc, minuteD[i]))

mergeOhlcv(minuteD, hourD, dayD) == mergeLoop(minuteD, hourD, dayD, 1, 1, 1, <<>>)

-----------------------------------------------------------------------------
(* Specification SpecMerge: mergeOhlcv applied to three ascending series.  *)
(* The bars of the minute, hour and day series carry different shapes, so  *)
(* that a bar of the result shows the series it was taken from.            *)

MinuteShape == <<1, 3, 1, 2, 1>>
HourShape == <<2, 2, 1, 1, 2>>
DayShape == <<3, 4, 2, 4, 3>>

AscendingSeries(sh) ==
  {s \in SeqsUpTo({MkBar(t, sh) : t \in SampleTimes}, MaxMergeLen) : Ascending(s)}

NoFeed == [hasData |-> FALSE, ohlcv_list |-> <<>>]

\* The variables of the data feed and of the realtime timer, where a
\* specification of a pure function leaves them.
IdleFeed ==
  /\ compareBarsCache = <<>>
  /\ setCount = <<>>
  /\ calls = <<>>
  /\ chartIsReady = FALSE

IdleTimer ==
  /\ intervalId = 0
  /\ intervals = {}
  /\ listeners = {}
  /\ nSubscribed = 0
  /\ realtimeCalls = 0
  /\ lateRealtime = FALSE
  /\ removed = FALSE

\* The variables of the codec and of the price formatter, where the other
\* specifications leave them.
IdleText ==
  /\ codec = [step |-> "idle"]
  /\ format = [step |-> "idle"]

\* The variables of the pure-function specifications, where the data feed
\* leaves them.
IdleFns ==
  /\ phase = "init"
  /\ feed = NoFeed /\ ohlcv = <<>> /\ merged = <<>>
  /\ rawBars = <<>> /\ resolution = "10" /\ aggregated = <<>> /\ reaggregated = <<>>

InitMerge ==
  /\ phase = "init"
  /\ minuteData \in AscendingSeries(MinuteShape)
  /\ hourData \in AscendingSeries(HourShape)
  /\ dayData \in AscendingSeries(DayShape)
  /\ merged = <<>>
  /\ feed = NoFeed /\ ohlcv = <<>>
  /\ rawBars = <<>> /\ resolution = "10" /\ aggregated = <<>> /\ reaggregated = <<>>
  /\ IdleFeed /\ IdleTimer /\ IdleText

Merge ==
  /\ phase = "init"
  /\ merged' = mergeOhlcv(minuteData, hourData, dayData)
  /\ phase' = "done"
  /\ UNCHANGED <<feed, ohlcv, minuteData, hourData, dayData,
                 rawBars, resolution, aggregated, reaggregated>>
  /\ UNCHANGED <<feedVars, timerVars, textVars>>

NextMerge == Merge

SpecMerge == InitMerge /\ [][NextMerge]_vars

\* C1: for every timestamp t present in both the day and the minute series,
\* the merged output contains the day-series bar at t and does not contain
\* the minute-series bar at t.
C1_DayOverMinute ==
  phase = "done" =>
    \A t \in Times(dayData) \cap Times(minuteData) :
      /\ \E n \in DOMAIN merged : merged[n] \in Range(BarsAt(dayData, t))
      /\ \A n \in DOMAIN merged : merged[n] \notin Range(BarsAt(minuteData, t))

\* C2: when the three inputs are strictly increasing, the output is strictly
\* ascending (every timestamp exactly once) and its timestamps are the union
\* of the inputs' timestamps.
C2_MergeUniqueUnion ==
  (/\ phase = "done"
   /\ StrictlyAscending(minuteData)
   /\ StrictlyAscending(hourData)
   /\ StrictlyAscending(dayData)) =>
    /\ StrictlyAscending(merged)
    /\ Times(merged) = Times(minuteData) \cup Times(hourData) \cup Times(dayData)

-----------------------------------------------------------------------------
(* Specification SpecAgg: aggregateBars applied to a series, and again to  *)
(* its own result.                                                         *)

\* "5" is not a key of chartSecondsPerResolution: the 300 s default.
AggResolutions == {"5", "10", "15"}

\* .filter((bar) => bar.time >= periodParams.from && bar.time <= periodParams.to)
inRange(bars, from, to) == SelectSeq(bars, LAMBDA b : b.time >= from /\ b.time <= to)

InitAgg ==
  /\ phase = "init"
  /\ rawBars \in SeqsUpTo(SampleBars, MaxAggLen)
  /\ resolution \in AggResolutions
  /\ aggregated = <<>> /\ reaggregated = <<>>
  /\ feed = NoFeed /\ ohlcv = <<>>
  /\ minuteData = <<>> /\ hourData = <<>> /\ dayData = <<>> /\ merged = <<>>
  /\ IdleFeed /\ IdleTimer /\ IdleText

Aggregate ==
  /\ phase = "init"
  /\ aggregated' = aggregateBars(rawBars, resolution)
  /\ rawBars' = aggregateEffect(rawBars, resolution)
  /\ phase' = "once"
  /\ UNCHANGED <<feed, ohlcv, minuteData, hourData, dayData, merged,
                 resolution, reaggregated>>
  /\ UNCHANGED <<feedVars, timerVars, textVars>>

Reaggregate ==
  /\ phase = "once"
  /\ reaggregated' = aggregateBars(aggregated, resolution)
  /\ phase' = "twice"
  /\ UNCHANGED <<feed, ohlcv, minuteData, hourData, dayData, merged,
                 rawBars, resolution, aggregated>>
  /\ UNCHANGED <<feedVars, timerVars, textVars>>

NextAgg == Aggregate \/ Reaggregate

SpecAgg == InitAgg /\ [][NextAgg]_vars

\* Unique, ascending timestamps that are all multiples of the interval.
Native(s, res) ==
  /\ StrictlyAscending(s)
  /\ \A n \in DOMAIN s : s[n].time % intervalSec(res) = 0

\* C3: aggregating a series whose timestamps are unique, ascending and
\* multiples of the interval returns the series bar for bar; aggregating any
\* aggregate again returns it unchanged.
C3_Idempotent ==
  /\ (phase \in {"once", "twice"} /\ Native(rawBars, resolution)) => aggregated = rawBars
  /\ phase = "twice" => reaggregated = aggregated

C3_Witness ==
  /\ phase = "twice"
  /\ Native(rawBars, resolution)
  /\ Len(rawBars) >= 2
  /\ reaggregated = rawBars

\* C4 as stated: the volumes sum to the same total, and also within every
\* range [from, to], output bars selected by bucket time and input bars by
\* their own time.
C4_VolumeInOwnTimeRange ==
  phase \in {"once", "twice"} =>
    /\ SumVolume(aggregated) = SumVolume(rawBars)
    /\ \A from \in SampleTimes, to \in SampleTimes :
         SumVolume(inRange(aggregated, from, to)) = SumVolume(inRange(rawBars, from, to))

\* The input bars whose bucket lies in [from, to].
inBucketRange(bars, res, from, to) ==
  SelectSeq(bars, LAMBDA b : /\ bucketTime(b.time, intervalSec(res)) >= from
                             /\ bucketTime(b.time, intervalSec(res)) <= to)

\* C4 amended: the volumes sum to the same total, and within every range
\* [from, to] the output bars' volumes sum to the volumes of the input bars
\* whose bucket time lies in the range.
C4_VolumeConserved ==
  phase \in {"once", "twice"} =>
    /\ SumVolume(aggregated) = SumVolume(rawBars)
    /\ \A from \in SampleTimes, to \in SampleTimes :
         SumVolume(inRange(aggregated, from, to)) =
           SumVolume(inBucketRange(rawBars, resolution, from, to))

C4_Witness ==
  /\ phase = "once"
  /\ Len(rawBars) = 3
  /\ Len(aggregated) = 2
  /\ SumVolume(aggregated) = SumVolume(rawBars)

-----------------------------------------------------------------------------
(* Specification SpecNorm: the normalizer applied to a raw feed payload.   *)

SampleTuples == {<<t, sh[1], sh[2], sh[3], sh[4], sh[5]>> : t \in SampleTimes, sh \in Shapes}

Feeds ==
  {NoFeed} \cup
  {[hasData |-> TRUE, ohlcv_list |-> l] : l \in SeqsUpTo(SampleTuples, MaxFeedLen)}

InitNorm ==
  /\ phase = "init"
  /\ feed \in Feeds
  /\ ohlcv = <<>>
  /\ minuteData = <<>> /\ hourData = <<>> /\ dayData = <<>> /\ merged = <<>>
  /\ rawBars = <<>> /\ resolution = "10" /\ aggregated = <<>> /\ reaggregated = <<>>
  /\ IdleFeed /\ IdleTimer /\ IdleText

NormalizeFeed ==
  /\ phase = "init"
  /\ ohlcv' = getOhlcvFromFeed(feed)
  /\ phase' = "getOhlcvFromFeed"
  /\ UNCHANGED <<feed, minuteData, hourData, dayData, merged,
                 rawBars, resolution, aggregated, reaggregated>>
  /\ UNCHANGED <<feedVars, timerVars, textVars>>

NormalizeData ==
  /\ phase = "init"
  /\ ohlcv' = getOhlcvData(feed)
  /\ phase' = "getOhlcvData"
  /\ UNCHANGED <<feed, minuteData, hourData, dayData, merged,
                 rawBars, resolution, aggregated, reaggregated>>
  /\ UNCHANGED <<feedVars, timerVars, textVars>>

NextNorm == NormalizeFeed \/ NormalizeData

SpecNorm == InitNorm /\ [][NextNorm]_vars

\* No two tuples of the payload carry the same timestamp.
NoRepeatedTime(list) ==
  \A m \in DOMAIN list, n \in DOMAIN list : m # n => list[m][1] # list[n][1]

\* C10 as stated: for any payload, repeated timestamps included, the
\* normalized series has strictly increasing times; a missing payload yields
\* the empty series.
C10_StrictlyIncreasing ==
  phase # "init" =>
    /\ StrictlyAscending(ohlcv)
    /\ ~feed.hasData => ohlcv = <<>>

\* C10 amended: the normalized series holds the payload's bars in
\* non-decreasing time order; its times are strictly increasing exactly when
\* the payload repeats no timestamp; a missing payload yields the empty
\* series.
C10_Ascending ==
  phase # "init" =>
    /\ Ascending(ohlcv)
    /\ Len(ohlcv) = Len(feed.ohlcv_list)
    /\ Range(ohlcv) = {tupleToBar(x) : x \in Range(feed.ohlcv_list)}
    /\ StrictlyAscending(ohlcv) <=> NoRepeatedTime(feed.ohlcv_list)
    /\ ~feed.hasData => ohlcv = <<>>

C10_Witness ==
  /\ phase = "getOhlcvData"
  /\ Len(ohlcv) = 3
  /\ ~NoRepeatedTime(feed.ohlcv_list)
  /\ feed.ohlcv_list[1][1] > feed.ohlcv_list[3][1]

-----------------------------------------------------------------------------
(* The props of MyTradingView.  The token page renders the chart only when *)
(* the day series is not empty; the minute and hour series may be.         *)

DayProp == <<MkBar(86400, <<3, 4, 2, 4, 3>>), MkBar(172800, <<1, 3, 1, 2, 1>>),
             MkBar(259200, <<2, 2, 1, 1, 2>>)>>
HourProp == <<MkBar(259200, <<2, 2, 1, 1, 2>>), MkBar(262800, <<1, 3, 1, 2, 1>>)>>
MinuteProp == <<MkBar(262800, <<1, 3, 1, 2, 1>>), MkBar(263100, <<3, 4, 2, 4, 3>>),
                MkBar(263400, <<2, 2, 1, 1, 2>>)>>

InitProps ==
  /\ minuteData \in {<<>>, MinuteProp}
  /\ hourData \in {<<>>, HourProp}
  /\ dayData = DayProp

-----------------------------------------------------------------------------
(* Strings are sequences of one-character strings.  The compare ticker     *)
(* codec: buildCompareTicker and parseCompareTicker.                       *)

\* String.prototype.trim, for the blank as the only white space.
RECURSIVE trimStart(_)
trimStart(str) ==
  IF str # <<>> /\ Head(str) = " " THEN trimStart(Tail(str)) ELSE str

RECURSIVE trimEnd(_)
trimEnd(str) ==
  IF str # <<>> /\ str[Len(str)] = " " THEN trimEnd(SubSeq(str, 1, Len(str) - 1)) ELSE str

trim(str) == trimEnd(trimStart(str))

Separator == <<" ", "/", " ">>

startsWithSeparator(str) == Len(str) >= 3 /\ SubSeq(str, 1, 3) = Separator

\* ticker.split(" / "): cur is the segment being read.
RECURSIVE splitLoop(_, _)
splitLoop(str, cur) ==
  IF str = <<>> THEN <<cur>>
  ELSE IF startsWithSeparator(str)
    THEN <<cur>> \o splitLoop(SubSeq(str, 4, Len(str)), <<>>)
    ELSE splitLoop(Tail(str), Append(cur, Head(str)))

split(str) == splitLoop(str, <<>>)

\* `${poolName.trim()} / ${network} / ${address}`
buildCompareTicker(poolName, network, address) ==
  trim(poolName) \o Separator \o network \o Separator \o address

\* The null result of parseCompareTicker.
NoTicker == [ok |-> FALSE, address |-> <<>>, network |-> <<>>]

\* A parser that reads the network and the address after the first
\* separator instead of from the end.
parseCompareTickerFromStart(ticker) ==
  IF trim(ticker) = <<>> THEN NoTicker
  ELSE
    LET parts == [n \in DOMAIN split(ticker) |-> trim(split(ticker)[n])]
    IN IF Len(parts) >= 3
         THEN IF parts[3] # <<>> /\ Len(parts[3]) >= 8 /\ parts[2] # <<>>
                THEN [ok |-> TRUE, address |-> parts[3], network |-> parts[2]]
                ELSE NoTicker
         ELSE NoTicker

\* A parser that accepts an empty network.
parseCompareTickerAnyNetwork(ticker) ==
  IF trim(ticker) = <<>> THEN NoTicker
  ELSE
    LET parts == [n \in DOMAIN split(ticker) |-> trim(split(ticker)[n])]
    IN IF Len(parts) >= 3
         THEN IF parts[Len(parts)] # <<>> /\ Len(parts[Len(parts)]) >= 8
                THEN [ok |-> TRUE, address |-> parts[Len(parts)],
                      network |-> parts[Len(parts) - 1]]
                ELSE NoTicker
         ELSE NoTicker

parseCompareTicker(ticker) ==
  IF trim(ticker) = <<>> THEN NoTicker
  ELSE
    LET parts == [n \in DOMAIN split(ticker) |-> trim(split(ticker)[n])]
    IN IF Len(parts) >= 3
         THEN LET address == parts[Len(parts)]
                  network == parts[Len(parts) - 1]
              IN IF address # <<>> /\ Len(address) >= 8 /\ network # <<>>
                   THEN [ok |-> TRUE, address |-> address, network |-> network]
                   ELSE NoTicker
         ELSE NoTicker

\* `${address}_${network}`
cacheKeyOf(address, network) == address \o <<"_">> \o network

-----------------------------------------------------------------------------
(* The data feed: getBars, its cache of compare series, the other adapter  *)
(* methods and handleCompareSelect.                                        *)

\* chartOptions.symbol of the token page: base name + "/" + quote symbol.
PrimarySymbol == <<"T", "/", "U">>

\* The compare assets a search returns (CompareResult).
Assets ==
  {[poolName |-> <<"A">>, network |-> <<"e">>,
    poolAddress |-> <<"0", "x", "a", "a", "a", "a", "a", "1">>],
   [poolName |-> <<"B", " ", "/", " ", "W">>, network |-> <<"b">>,
    poolAddress |-> <<"0", "x", "b", "b", "b", "b", "b", "2">>]}

tickerOf(asset) == buildCompareTicker(asset.poolName, asset.network, asset.poolAddress)

Tickers == {PrimarySymbol} \cup {tickerOf(a) : a \in Assets}

\* What the three getDataFeed calls of fetchFullOhlcv may answer:
\* <<dayFeed, hourFeed, minuteFeed>>.
FeedOf(bars) ==
  [hasData |-> TRUE,
   ohlcv_list |-> [n \in DOMAIN bars |->
     <<bars[n].time, bars[n].open, bars[n].high, bars[n].low, bars[n].close,
       bars[n].volume>>]]

FetchedFeeds ==
  {<<NoFeed, NoFeed, NoFeed>>,
   <<FeedOf(<<DayProp[2], DayProp[1]>>), FeedOf(HourProp), FeedOf(MinuteProp)>>}

\* fetchFullOhlcv's data, given the three answers.
fetchFullOhlcv(dayFeed, hourFeed, minuteFeed) ==
  mergeOhlcv(getOhlcvFromFeed(minuteFeed), getOhlcvFromFeed(hourFeed),
             getOhlcvFromFeed(dayFeed))

DAILY_RESOLUTIONS == {"1440", "D", "1D", "3D", "W", "1W", "M", "1M"}

\* parseInt(resolution); NaN, which compares false with 60, is -1 here.
parseInt(res) ==
  CASE res = "5" -> 5
    [] res = "10" -> 10
    [] res = "15" -> 15
    [] res = "30" -> 30
    [] res = "60" -> 60
    [] res = "240" -> 240
    [] res = "480" -> 480
    [] res = "720" -> 720
    [] res = "1440" -> 1440
    [] res = "1D" -> 1
    [] res = "3D" -> 3
    [] res = "1W" -> 1
    [] res = "1M" -> 1
    [] OTHER -> -1

\* The primary symbol's sourceData for a resolution.
sourceDataOf(res, minuteD, hourD, dayD) ==
  IF res \in DAILY_RESOLUTIONS THEN dayD
  ELSE IF parseInt(res) >= 60
    THEN IF Len(hourD) > 0 /\ Len(dayD) > 0
           THEN SelectSeq(dayD, LAMBDA b : b.time < hourD[1].time) \o hourD
           ELSE IF Len(hourD) > 0 THEN hourD ELSE dayD
    ELSE IF Len(minuteD) > 0 THEN minuteD ELSE hourD

\* For each bar of sourceData, the prop it comes from and its position there:
\* dayData.filter and the spread copy the arrays, not the bars.
sourceRefs(res, minuteD, hourD, dayD) ==
  LET refs(name, series) == [n \in DOMAIN series |-> <<name, n>>]
  IN IF res \in DAILY_RESOLUTIONS THEN refs("day", dayD)
     ELSE IF parseInt(res) >= 60
       THEN IF Len(hourD) > 0 /\ Len(dayD) > 0
              THEN SelectSeq(refs("day", dayD), LAMBDA r : dayD[r[2]].time < hourD[1].time)
                     \o refs("hour", hourD)
              ELSE IF Len(hourD) > 0 THEN refs("hour", hourD) ELSE refs("day", dayD)
       ELSE IF Len(minuteD) > 0 THEN refs("minute", minuteD) ELSE refs("hour", hourD)

\* A prop after aggregateBars(sourceData, resolution) has left sourceData as
\* after: the bars of the prop that are in sourceData are those of after.
propAfter(name, series, refs, after) ==
  [n \in DOMAIN series |->
     IF \E i \in DOMAIN refs : refs[i] = <<name, n>>
       THEN after[CHOOSE i \in DOMAIN refs : refs[i] = <<name, n>>]
       ELSE series[n]]

\* A plausible slip: the bars keep their times in seconds.
toMillisecondsOmitted(bars) == bars

\* .map((bar) => ({time: bar.time * 1000, open: bar.open, ...}))
toMilliseconds(bars) == [n \in DOMAIN bars |-> [bars[n] EXCEPT !.time = bars[n].time * 1000]]

\* A plausible slip: noData whenever no bar is delivered.
noDataWhenEmpty(bars, agg, to) == Len(bars) = 0

\* bars.length === 0 && (firstBarTime === null || periodParams.to < firstBarTime)
noDataOf(bars, agg, to) ==
  Len(bars) = 0 /\ (Len(agg) = 0 \/ to < agg[1].time)

\* What getBars computes from a series: the aggregate, the bars it delivers
\* and the noData flag.
served(series, res, from, to) ==
  LET agg == aggregateBars(series, res)
      bars == toMilliseconds(inRange(agg, from, to))
  IN [aggregated |-> agg, bars |-> bars, noData |-> noDataOf(bars, agg, to)]

\* A plausible slip: the cache is never consulted.
isCachedNever(cache, key) == FALSE

\* compareBarsCache.get(cacheKey) is set / compareBarsCache.has(cacheKey)
isCached(cache, key) == key \in DOMAIN cache

\* compareBarsCache.set(cacheKey, data)
cacheSet(cache, key, data) ==
  [k \in DOMAIN cache \cup {key} |-> IF k = key THEN data ELSE cache[k]]

countSet(count, key) ==
  [k \in DOMAIN count \cup {key} |->
     IF k = key THEN (IF key \in DOMAIN count THEN count[key] + 1 ELSE 1)
     ELSE count[k]]

\* A call of an adapter method or of handleCompareSelect, as it starts.
\*   pc: "timer" (a setTimeout is pending), "errTimer" (the error's
\*       setTimeout is pending), "fetching" (the promise is pending), "done"
\*   path: "primary", "cache", "fetch", "sync" or "none"
\*   result: what getBars will deliver or has delivered
\*   nResult, nError: invocations of the result and the error callback
\*   sync: a callback was invoked before the method returned
\*   wrote: the call has run compareBarsCache.set
\*   overlap: the call began its fetch while another for the key was pending
\*   cachedAtFail, callsAtFail: at the fetch's rejection, whether the key
\*       was cached and how many calls had been made
\*   studies: createStudy invocations
\*   ready: chartIsReady as handleCompareSelect read it
\*   cachedAtStudy: the key was cached when createStudy was invoked
\*   stored: the series the call has given to compareBarsCache.set
\*   version: for a compare ticker, how often the key had been set when the
\*       call's bars were computed
NewCall(method, arg, res, from, to) ==
  [method |-> method, arg |-> arg, resolution |-> res, from |-> from, to |-> to,
   cacheKey |-> <<>>, pc |-> "timer", path |-> "none",
   result |-> [aggregated |-> <<>>, bars |-> <<>>, noData |-> FALSE],
   nResult |-> 0, nError |-> 0, sync |-> FALSE, wrote |-> FALSE,
   overlap |-> FALSE, failed |-> FALSE, cachedAtFail |-> FALSE, callsAtFail |-> 0,
   studies |-> 0, ready |-> FALSE, cachedAtStudy |-> FALSE,
   stored |-> <<>>, version |-> 0]

\* A fetch for the key is pending.
fetchPending(key) ==
  \E n \in DOMAIN calls : calls[n].pc = "fetching" /\ calls[n].cacheKey = key

InitFeed ==
  /\ IdleFns /\ IdleTimer /\ IdleText
  /\ minuteData = MinuteProp /\ hourData = HourProp /\ dayData = DayProp
  /\ compareBarsCache = <<>>
  /\ setCount = <<>>
  /\ calls = <<>>
  /\ chartIsReady = FALSE

\* myWidget.current.onChartReady(() => setChartIsReady(true))
ChartReady ==
  /\ ~chartIsReady
  /\ chartIsReady' = TRUE
  /\ UNCHANGED <<compareBarsCache, setCount, calls>>
  /\ UNCHANGED <<fnVars, propVars, timerVars, textVars>>

\* onReady: setTimeout(() => callback(...), 0)
OnReady(budget) ==
  /\ Len(calls) < budget
  /\ calls' = Append(calls, NewCall("onReady", <<>>, "", 0, 0))
  /\ UNCHANGED <<compareBarsCache, setCount, chartIsReady>>
  /\ UNCHANGED <<fnVars, propVars, timerVars, textVars>>

\* resolveSymbol: setTimeout(() => onSymbolResolvedCallback(...), 0)
ResolveSymbol(budget, symbolName) ==
  /\ Len(calls) < budget
  /\ calls' = Append(calls, NewCall("resolveSymbol", symbolName, "", 0, 0))
  /\ UNCHANGED <<compareBarsCache, setCount, chartIsReady>>
  /\ UNCHANGED <<fnVars, propVars, timerVars, textVars>>

\* getBars up to its return: the primary symbol sets a 50 ms timer; a compare
\* ticker is served from the cache (computed now, delivered by a 0 ms timer)
\* or starts fetchFullOhlcv.
GetBars(budget, ticker, res, from, to) ==
  /\ Len(calls) < budget
  /\ LET parsed == parseCompareTicker(ticker)
         key == cacheKeyOf(parsed.address, parsed.network)
         call == NewCall("getBars", ticker, res, from, to)
     IN /\ calls' = Append(calls,
          IF ~parsed.ok
            THEN [call EXCEPT !.path = "primary"]
          ELSE IF isCached(compareBarsCache, key)
            THEN [call EXCEPT !.cacheKey = key, !.path = "cache",
                              !.version = setCount[key],
                              !.result = served(compareBarsCache[key], res, from, to)]
            ELSE [call EXCEPT !.cacheKey = key, !.path = "fetch", !.pc = "fetching",
                              !.overlap = fetchPending(key)])
        /\ compareBarsCache' =
             IF parsed.ok /\ isCached(compareBarsCache, key)
               THEN [compareBarsCache EXCEPT ![key] = aggregateEffect(@, res)]
               ELSE compareBarsCache
  /\ UNCHANGED <<setCount, chartIsReady>>
  /\ UNCHANGED <<fnVars, propVars, timerVars, textVars>>

\* fetchFullOhlcv resolved for a getBars call: the .then callback.
FetchResolve(n, feeds) ==
  /\ n \in DOMAIN calls
  /\ calls[n].method = "getBars" /\ calls[n].pc = "fetching"
  /\ LET data == fetchFullOhlcv(feeds[1], feeds[2], feeds[3])
         c == calls[n]
     IN /\ compareBarsCache' = cacheSet(compareBarsCache, c.cacheKey,
                                        aggregateEffect(data, c.resolution))
        /\ setCount' = countSet(setCount, c.cacheKey)
        /\ calls' = [calls EXCEPT ![n] =
              [c EXCEPT !.pc = "timer", !.wrote = TRUE, !.stored = data,
                        !.version = countSet(setCount, c.cacheKey)[c.cacheKey],
                        !.result = served(data, c.resolution, c.from, c.to)]]
  /\ UNCHANGED chartIsReady
  /\ UNCHANGED <<fnVars, propVars, timerVars, textVars>>

\* A plausible slip: the .catch callback caches an empty series.
FetchRejectCaching(n) ==
  /\ n \in DOMAIN calls
  /\ calls[n].method = "getBars" /\ calls[n].pc = "fetching"
  /\ compareBarsCache' = cacheSet(compareBarsCache, calls[n].cacheKey, <<>>)
  /\ calls' = [calls EXCEPT ![n] =
        [@ EXCEPT !.pc = "errTimer", !.failed = TRUE,
                  !.cachedAtFail = isCached(compareBarsCache, calls[n].cacheKey),
                  !.callsAtFail = Len(calls)]]
  /\ UNCHANGED <<setCount, chartIsReady>>
  /\ UNCHANGED <<fnVars, propVars, timerVars, textVars>>

\* A plausible slip: the .catch callback swallows the error.
FetchRejectSilent(n) ==
  /\ n \in DOMAIN calls
  /\ calls[n].method = "getBars" /\ calls[n].pc = "fetching"
  /\ calls' = [calls EXCEPT ![n] =
        [@ EXCEPT !.pc = "done", !.failed = TRUE,
                  !.cachedAtFail = isCached(compareBarsCache, calls[n].cacheKey),
                  !.callsAtFail = Len(calls)]]
  /\ UNCHANGED <<compareBarsCache, setCount, chartIsReady>>
  /\ UNCHANGED <<fnVars, propVars, timerVars, textVars>>

\* fetchFullOhlcv rejected for a getBars call (any of the three getDataFeed
\* calls failed): the .catch callback.
FetchReject(n) ==
  /\ n \in DOMAIN calls
  /\ calls[n].method = "getBars" /\ calls[n].pc = "fetching"
  /\ calls' = [calls EXCEPT ![n] =
        [@ EXCEPT !.pc = "errTimer", !.failed = TRUE,
                  !.cachedAtFail = isCached(compareBarsCache, calls[n].cacheKey),
                  !.callsAtFail = Len(calls)]]
  /\ UNCHANGED <<compareBarsCache, setCount, chartIsReady>>
  /\ UNCHANGED <<fnVars, propVars, timerVars, textVars>>

\* A pending setTimeout callback runs: the widget's callback is invoked.  The
\* primary symbol's bars are computed here.
TimerFire(n) ==
  /\ n \in DOMAIN calls
  /\ calls[n].pc = "timer"
  /\ LET c == calls[n]
     IN /\ calls' = [calls EXCEPT ![n] =
          IF c.path = "primary"
            THEN [c EXCEPT !.pc = "done", !.nResult = @ + 1,
                    !.result = served(sourceDataOf(c.resolution, minuteData, hourData, dayData),
                                      c.resolution, c.from, c.to)]
            ELSE [c EXCEPT !.pc = "done", !.nResult = @ + 1]]
        /\ IF c.path = "primary"
             THEN LET refs == sourceRefs(c.resolution, minuteData, hourData, dayData)
                      after == aggregateEffect(
                                 sourceDataOf(c.resolution, minuteData, hourData, dayData),
                                 c.resolution)
                  IN /\ minuteData' = propAfter("minute", minuteData, refs, after)
                     /\ hourData' = propAfter("hour", hourData, refs, after)
                     /\ dayData' = propAfter("day", dayData, refs, after)
             ELSE UNCHANGED propVars
  /\ UNCHANGED <<compareBarsCache, setCount, chartIsReady>>
  /\ UNCHANGED <<fnVars, timerVars, textVars>>

\* setTimeout(() => onError(String(err)), 0) runs.
ErrorTimerFire(n) ==
  /\ n \in DOMAIN calls
  /\ calls[n].pc = "errTimer"
  /\ calls' = [calls EXCEPT ![n] = [@ EXCEPT !.pc = "done", !.nError = @ + 1]]
  /\ UNCHANGED <<compareBarsCache, setCount, chartIsReady>>
  /\ UNCHANGED <<fnVars, propVars, timerVars, textVars>>

\* searchSymbols up to its return: an input of fewer than 2 characters is
\* answered at once, any other starts searchToken.
SearchSymbols(budget, userInput) ==
  /\ Len(calls) < budget
  /\ LET call == NewCall("searchSymbols", userInput, "", 0, 0)
     IN calls' = Append(calls,
          IF userInput = <<>> \/ Len(trim(userInput)) < 2
            THEN [call EXCEPT !.pc = "done", !.path = "sync", !.nResult = 1, !.sync = TRUE]
            ELSE [call EXCEPT !.pc = "fetching", !.path = "fetch"])
  /\ UNCHANGED <<compareBarsCache, setCount, chartIsReady>>
  /\ UNCHANGED <<fnVars, propVars, timerVars, textVars>>

\* searchToken settled: .then maps the items and calls back, .catch calls
\* back with the empty list.
SearchSettle(n) ==
  /\ n \in DOMAIN calls
  /\ calls[n].method = "searchSymbols" /\ calls[n].pc = "fetching"
  /\ calls' = [calls EXCEPT ![n] = [@ EXCEPT !.pc = "done", !.nResult = @ + 1]]
  /\ UNCHANGED <<compareBarsCache, setCount, chartIsReady>>
  /\ UNCHANGED <<fnVars, propVars, timerVars, textVars>>

\* handleCompareSelect up to its first await or its end.
HandleCompareSelect(budget, asset) ==
  /\ Len(calls) < budget
  /\ LET key == cacheKeyOf(asset.poolAddress, asset.network)
         call == [NewCall("handleCompareSelect", tickerOf(asset), "", 0, 0)
                    EXCEPT !.cacheKey = key]
     IN calls' = Append(calls,
          IF ~chartIsReady
            THEN [call EXCEPT !.pc = "done", !.path = "none"]
          ELSE IF isCached(compareBarsCache, key)
            THEN [call EXCEPT !.pc = "done", !.path = "cache", !.studies = 1,
                              !.ready = TRUE, !.cachedAtStudy = TRUE]
            ELSE [call EXCEPT !.pc = "fetching", !.path = "fetch", !.ready = TRUE,
                              !.overlap = fetchPending(key)])
  /\ UNCHANGED <<compareBarsCache, setCount, chartIsReady>>
  /\ UNCHANGED <<fnVars, propVars, timerVars, textVars>>

\* The await of handleCompareSelect resumes with the data: set, createStudy.
SelectResolve(n, feeds) ==
  /\ n \in DOMAIN calls
  /\ calls[n].method = "handleCompareSelect" /\ calls[n].pc = "fetching"
  /\ compareBarsCache' = cacheSet(compareBarsCache, calls[n].cacheKey,
                                  fetchFullOhlcv(feeds[1], feeds[2], feeds[3]))
  /\ setCount' = countSet(setCount, calls[n].cacheKey)
  /\ calls' = [calls EXCEPT ![n] =
        [@ EXCEPT !.pc = "done", !.wrote = TRUE, !.studies = @ + 1,
                  !.cachedAtStudy = isCached(compareBarsCache', calls[n].cacheKey),
                  !.stored = fetchFullOhlcv(feeds[1], feeds[2], feeds[3])]]
  /\ UNCHANGED chartIsReady
  /\ UNCHANGED <<fnVars, propVars, timerVars, textVars>>

\* A plausible slip: the catch block returns, so that no study is created.
SelectRejectReturns(n) ==
  /\ n \in DOMAIN calls
  /\ calls[n].method = "handleCompareSelect" /\ calls[n].pc = "fetching"
  /\ calls' = [calls EXCEPT ![n] =
        [@ EXCEPT !.pc = "done", !.failed = TRUE,
                  !.cachedAtFail = isCached(compareBarsCache, calls[n].cacheKey),
                  !.callsAtFail = Len(calls)]]
  /\ UNCHANGED <<compareBarsCache, setCount, chartIsReady>>
  /\ UNCHANGED <<fnVars, propVars, timerVars, textVars>>

\* The await of handleCompareSelect throws: the empty catch, createStudy.
SelectReject(n) ==
  /\ n \in DOMAIN calls
  /\ calls[n].method = "handleCompareSelect" /\ calls[n].pc = "fetching"
  /\ calls' = [calls EXCEPT ![n] =
        [@ EXCEPT !.pc = "done", !.failed = TRUE, !.studies = @ + 1,
                  !.cachedAtStudy = isCached(compareBarsCache, calls[n].cacheKey),
                  !.cachedAtFail = isCached(compareBarsCache, calls[n].cacheKey),
                  !.callsAtFail = Len(calls)]]
  /\ UNCHANGED <<compareBarsCache, setCount, chartIsReady>>
  /\ UNCHANGED <<fnVars, propVars, timerVars, textVars>>

\* The resolutions and windows of the getBars calls of Spec.
FeedResolutions == {"10", "1D"}
FeedWindows == {<<0, 300000>>}

\* The inputs of the searchSymbols calls.
UserInputs == {<<>>, <<" ", "a", " ">>, <<"a", "b">>}

Settle(n) ==
  \/ \E feeds \in FetchedFeeds : FetchResolve(n, feeds)
  \/ FetchReject(n)
  \/ TimerFire(n)
  \/ ErrorTimerFire(n)
  \/ SearchSettle(n)
  \/ \E feeds \in FetchedFeeds : SelectResolve(n, feeds)
  \/ SelectReject(n)

Next ==
  \/ ChartReady
  \/ OnReady(MaxCalls)
  \/ \E symbolName \in Tickers : ResolveSymbol(MaxCalls, symbolName)
  \/ \E ticker \in Tickers, res \in FeedResolutions, w \in FeedWindows :
       GetBars(MaxCalls, ticker, res, w[1], w[2])
  \/ \E userInput \in UserInputs : SearchSymbols(MaxCalls, userInput)
  \/ \E asset \in Assets : HandleCompareSelect(MaxCalls, asset)
  \/ \E n \in 1..MaxCalls : Settle(n)

Spec == InitFeed /\ [][Next]_vars

\* C6 as stated: over any interleaving, compareBarsCache.set runs at most
\* once for each cache key.
C6_SingleWrite ==
  \A key \in DOMAIN setCount : setCount[key] <= 1

\* The calls that began a fetch for the key while another was pending.
overlapping(key) ==
  {n \in DOMAIN calls : calls[n].cacheKey = key /\ calls[n].overlap}

\* C6 amended: compareBarsCache.set runs at most once for a cache key unless
\* a lookup found the key uncached while a fetch for it was still pending;
\* every such overlapping lookup adds at most one write, and a call writes at
\* most once, only after it found the key uncached.
C6_SingleWriteUnlessOverlap ==
  /\ \A key \in DOMAIN setCount :
       /\ setCount[key] <= 1 + Cardinality(overlapping(key))
       /\ setCount[key] =
            Cardinality({n \in DOMAIN calls : calls[n].cacheKey = key /\ calls[n].wrote})
  /\ \A n \in DOMAIN calls : calls[n].wrote => calls[n].path = "fetch"
  /\ DOMAIN compareBarsCache = DOMAIN setCount

C6_Witness ==
  \E key \in DOMAIN setCount :
    /\ setCount[key] = 2
    /\ \E n \in DOMAIN calls : calls[n].method = "getBars" /\ calls[n].wrote
    /\ \E n \in DOMAIN calls : calls[n].method = "handleCompareSelect" /\ calls[n].wrote

\* The getBars calls whose fetch was rejected.
failedGetBars == {n \in DOMAIN calls : calls[n].method = "getBars" /\ calls[n].failed}

\* The getBars calls for the key of call n made after n's fetch was rejected.
retriesOf(n) ==
  {m \in DOMAIN calls : /\ m > calls[n].callsAtFail
                        /\ calls[m].method = "getBars"
                        /\ calls[m].cacheKey = calls[n].cacheKey}

\* Another call has written the cache entry of call n's key.
otherWriter(n) ==
  \E m \in DOMAIN calls : m # n /\ calls[m].cacheKey = calls[n].cacheKey /\ calls[m].wrote

\* C7 as stated: when the fetch of a getBars request is rejected, onError is
\* invoked and onResult is not, the cache has no entry for the key afterwards
\* and the next getBars request for the key starts a new fetch.
C7_FailureLeavesKeyUncached ==
  \A n \in failedGetBars :
    /\ calls[n].nResult = 0
    /\ calls[n].pc = "done" => calls[n].nError = 1
    /\ ~calls[n].cachedAtFail
    /\ \A m \in retriesOf(n) :
         (\A later \in retriesOf(n) : m <= later) => calls[m].path = "fetch"

\* C7 amended: when the fetch of a getBars request is rejected, onError is
\* invoked (once, from a timer) and onResult is not, and the request writes
\* nothing to the cache; unless another request for the same key has written
\* the entry, the cache has no entry for the key afterwards and every later
\* getBars request for the key starts a new fetch.
C7_FailureWritesNothing ==
  \A n \in failedGetBars :
    /\ calls[n].nResult = 0
    /\ calls[n].nError = (IF calls[n].pc = "done" THEN 1 ELSE 0)
    /\ calls[n].pc \in {"errTimer", "done"}
    /\ ~calls[n].wrote
    /\ ~otherWriter(n) =>
         /\ ~calls[n].cachedAtFail
         /\ ~isCached(compareBarsCache, calls[n].cacheKey)
         /\ \A m \in retriesOf(n) : calls[m].path = "fetch"

C7_Witness ==
  \E n \in failedGetBars :
    /\ calls[n].pc = "done" /\ calls[n].nError = 1
    /\ ~isCached(compareBarsCache, calls[n].cacheKey)
    /\ \E m \in retriesOf(n) : calls[m].pc = "fetching"

\* C9: no adapter method invokes the widget's callback before it returns.
C9_NeverSynchronous ==
  \A n \in DOMAIN calls :
    calls[n].method \in {"onReady", "resolveSymbol", "getBars", "searchSymbols"} =>
      ~calls[n].sync

-----------------------------------------------------------------------------
(* Specification SpecBars: getBars calls over many resolutions and windows *)
(* for the primary symbol and a compare ticker, the fetches resolving.     *)

BarsTickers == {PrimarySymbol, <<"A", " ", "/", " ", "e", " ", "/", " ",
                                 "0", "x", "a", "a", "a", "a", "a", "1">>}
BarsResolutions == {"10", "60", "1D"}
\* Before the first bar, over all bars, between two day bars, after the last,
\* and from the second day bar to the last hour bar.
BarsWindows == {<<0, 3600>>, <<0, 300000>>, <<90000, 100000>>, <<400000, 500000>>,
                <<172800, 262800>>}

InitBars ==
  /\ IdleFns /\ IdleTimer /\ IdleText /\ IdleFeed
  /\ InitProps

NextBars ==
  \/ \E ticker \in BarsTickers, res \in BarsResolutions, w \in BarsWindows :
       GetBars(MaxBarsCalls, ticker, res, w[1], w[2])
  \/ \E n \in 1..MaxBarsCalls, feeds \in FetchedFeeds : FetchResolve(n, feeds)
  \/ \E n \in 1..MaxBarsCalls : TimerFire(n)

SpecBars == InitBars /\ [][NextBars]_vars

\* The getBars calls that have delivered their result.
delivered == {n \in DOMAIN calls : calls[n].method = "getBars" /\ calls[n].nResult > 0}

\* C5: getBars reports noData exactly when it delivers no bar and the
\* aggregated series is empty or the window ends before its first bar: an
\* empty series gives (no bars, noData), an empty result for a window after
\* or between the bars gives noData = false.
C5_NoData ==
  \A n \in delivered :
    LET r == calls[n].result
    IN /\ r.noData <=>
            /\ r.bars = <<>>
            /\ \/ r.aggregated = <<>>
               \/ \A b \in Range(r.aggregated) : calls[n].to < b.time
       /\ r.aggregated = <<>> => (r.bars = <<>> /\ r.noData)
       /\ (/\ r.bars = <<>>
           /\ \E b \in Range(r.aggregated) : b.time <= calls[n].to) => ~r.noData

C5_Witness ==
  \E n \in delivered :
    /\ calls[n].path = "fetch"
    /\ calls[n].result.aggregated # <<>>
    /\ calls[n].result.bars = <<>>
    /\ ~calls[n].result.noData

-----------------------------------------------------------------------------
(* Specification SpecRealtime: subscribeBars, unsubscribeBars, the         *)
(* interval's callback and the effect cleanup.                             *)

\* const lastBar = dayData[dayData.length - 1] ?? minuteData[minuteData.length - 1]
hasLastBar(minuteD, dayD) == Len(dayD) > 0 \/ Len(minuteD) > 0

InitRealtime ==
  /\ IdleFns /\ IdleFeed /\ IdleTimer /\ IdleText
  /\ InitProps

\* subscribeBars: the widget subscribes listener nSubscribed + 1; the interval
\* started, if any, gets the same number as its id.
SubscribeBars ==
  /\ ~removed
  /\ nSubscribed < MaxSubscriptions
  /\ nSubscribed' = nSubscribed + 1
  /\ listeners' = listeners \cup {nSubscribed + 1}
  /\ IF ~hasLastBar(minuteData, dayData)
       THEN UNCHANGED <<intervalId, intervals>>
       ELSE /\ intervalId' = nSubscribed + 1
            /\ intervals' = intervals \cup {nSubscribed + 1}
  /\ UNCHANGED <<realtimeCalls, lateRealtime, removed>>
  /\ UNCHANGED <<fnVars, propVars, feedVars, textVars>>

\* unsubscribeBars: if (intervalId.current) clearInterval(intervalId.current)
UnsubscribeBars(guid) ==
  /\ guid \in listeners
  /\ listeners' = listeners \ {guid}
  /\ intervals' = IF intervalId # 0 THEN intervals \ {intervalId} ELSE intervals
  /\ UNCHANGED <<intervalId, nSubscribed, realtimeCalls, lateRealtime, removed>>
  /\ UNCHANGED <<fnVars, propVars, feedVars, textVars>>

\* The callback of an active interval: onRealtimeCallback(lastBar in ms).
IntervalFire(id) ==
  /\ id \in intervals
  /\ realtimeCalls < MaxRealtimeCalls
  /\ realtimeCalls' = realtimeCalls + 1
  /\ lateRealtime' = (lateRealtime \/ listeners = {})
  /\ UNCHANGED <<intervalId, intervals, listeners, nSubscribed, removed>>
  /\ UNCHANGED <<fnVars, propVars, feedVars, textVars>>

\* The cleanup of the mounting effect: myWidget.current?.remove()
WidgetRemove ==
  /\ ~removed
  /\ removed' = TRUE
  /\ UNCHANGED <<intervalId, intervals, listeners, nSubscribed, realtimeCalls,
                 lateRealtime>>
  /\ UNCHANGED <<fnVars, propVars, feedVars, textVars>>

NextRealtime ==
  \/ SubscribeBars
  \/ \E guid \in 1..MaxSubscriptions : UnsubscribeBars(guid)
  \/ \E id \in 1..MaxSubscriptions : IntervalFire(id)
  \/ WidgetRemove

SpecRealtime == InitRealtime /\ [][NextRealtime]_vars

\* C8: once every subscription has been unsubscribed, no interval started by
\* subscribeBars is active and onRealtimeCallback is not invoked any more.
C8_NoTimerAfterUnsubscribe ==
  (nSubscribed > 0 /\ listeners = {}) => (intervals = {} /\ ~lateRealtime)

\* Every series is as it was produced or cached: the props are the series
\* the component was given, and every cache entry is the series that the
\* call that set it has stored.
seriesUnchanged ==
  /\ minuteData = MinuteProp /\ hourData = HourProp /\ dayData = DayProp
  /\ \A k \in DOMAIN compareBarsCache :
       \E n \in DOMAIN calls :
         /\ calls[n].wrote /\ calls[n].cacheKey = k
         /\ calls[n].stored = compareBarsCache[k]

\* Two getBars calls that have delivered, for the same ticker, resolution and
\* window.
sameRequest(n, m) ==
  /\ n \in DOMAIN calls /\ m \in DOMAIN calls
  /\ calls[n].method = "getBars" /\ calls[m].method = "getBars"
  /\ calls[n].nResult > 0 /\ calls[m].nResult > 0
  /\ calls[n].arg = calls[m].arg
  /\ calls[n].resolution = calls[m].resolution
  /\ calls[n].from = calls[m].from /\ calls[n].to = calls[m].to

\* C16 as stated: getBars leaves every bar of the props and of the cache
\* entries as it was produced or cached, and any two requests for the same
\* key, resolution and window are given equal bars.
C16_RepeatedRequestsEqual ==
  /\ seriesUnchanged
  /\ \A n \in 1..MaxCalls, m \in 1..MaxCalls :
       sameRequest(n, m) => calls[n].result.bars = calls[m].result.bars

\* C16: getBars leaves every bar of the props and of the cache entries as it
\* was produced or cached, and any two requests for the same key, resolution
\* and window that are served from the same series (the props, or a cache
\* entry that has not been set again in between) are given equal bars.
C16_SeriesImmutable ==
  /\ seriesUnchanged
  /\ \A n \in 1..MaxCalls, m \in 1..MaxCalls :
       (sameRequest(n, m) /\ calls[n].version = calls[m].version)
         => calls[n].result = calls[m].result

\* A compare series is fetched, aggregated into fewer bars and served, then
\* served again from the cache.
C16_Witness ==
  /\ sameRequest(1, 2)
  /\ calls[1].path = "fetch" /\ calls[2].path = "cache"
  /\ calls[1].result.bars # <<>>
  /\ Len(calls[1].result.aggregated) < Len(compareBarsCache[calls[1].cacheKey])

\* The handleCompareSelect calls.
selects == {n \in DOMAIN calls : calls[n].method = "handleCompareSelect"}

\* C18: handleCompareSelect does nothing when the chart is not ready: no
\* fetch, no cache write, no createStudy.  Otherwise it invokes createStudy
\* once, not before the pre-fetch for an uncached key has settled, and at
\* that moment the cache holds the key or the pre-fetch has failed.
C18_StudyAfterPrefetch ==
  \A n \in selects :
    LET c == calls[n]
    IN /\ ~c.ready =>
            /\ c.pc = "done" /\ c.path = "none"
            /\ c.studies = 0 /\ ~c.wrote /\ ~c.failed
       /\ c.ready =>
            /\ c.path \in {"cache", "fetch"}
            /\ c.pc = "fetching" => (c.path = "fetch" /\ c.studies = 0)
            /\ c.pc = "done" => (c.studies = 1 /\ (c.cachedAtStudy \/ c.failed))
            /\ c.pc \in {"fetching", "done"}
            /\ c.path = "cache" => (c.cachedAtStudy /\ ~c.wrote /\ ~c.failed)

\* A selection before the chart is ready, and one whose pre-fetch failed.
C18_Witness ==
  /\ \E n \in selects : ~calls[n].ready /\ calls[n].pc = "done"
  /\ \E n \in selects :
       /\ calls[n].ready /\ calls[n].failed /\ ~calls[n].cachedAtStudy
       /\ calls[n].studies = 1

-----------------------------------------------------------------------------
(* getBars under the event loop: a pending timer runs, and the fetch       *)
(* settles, as C17 supposes.                                               *)

NextResponse ==
  \/ \E ticker \in Tickers, res \in FeedResolutions, w \in FeedWindows :
       GetBars(MaxCalls, ticker, res, w[1], w[2])
  \/ \E n \in 1..MaxCalls, feeds \in FetchedFeeds : FetchResolve(n, feeds)
  \/ \E n \in 1..MaxCalls : FetchReject(n)
  \/ \E n \in 1..MaxCalls : TimerFire(n)
  \/ \E n \in 1..MaxCalls : ErrorTimerFire(n)

\* A callback that is due: the fetch of a call settles, or its timer runs.
SettleResponse ==
  \E n \in 1..MaxCalls :
    \/ \E feeds \in FetchedFeeds : FetchResolve(n, feeds)
    \/ FetchReject(n)
    \/ TimerFire(n)
    \/ ErrorTimerFire(n)

\* The event loop runs a callback that is due.  A run has finitely many
\* calls and each settles in at most two steps, so no call is passed over
\* for ever.
FairResponse == WF_vars(SettleResponse)

\* The component with a day series of one bar and no minute or hour series.
InitResponse ==
  /\ IdleFns /\ IdleTimer /\ IdleText /\ IdleFeed
  /\ minuteData = <<>> /\ hourData = <<>> /\ dayData = <<DayProp[1]>>

SpecResponse == InitResponse /\ [][NextResponse]_vars /\ FairResponse

\* The callbacks of a getBars call: none while it is pending, one when done.
oneResponse(n) ==
  calls[n].nResult + calls[n].nError = (IF calls[n].pc = "done" THEN 1 ELSE 0)

\* C17: every getBars call, on the primary path, served from the cache or
\* after a fetch, leads to one invocation of onResult or of onError, never
\* both and never one of them twice, when the fetch settles.
C17_ExactlyOneResponse ==
  /\ [](\A n \in DOMAIN calls : calls[n].method = "getBars" => oneResponse(n))
  /\ \A n \in 1..MaxCalls :
       (n \in DOMAIN calls /\ calls[n].method = "getBars")
         ~> (/\ n \in DOMAIN calls
             /\ calls[n].pc = "done"
             /\ calls[n].nResult + calls[n].nError = 1)

\* The three paths have answered: the first call after its fetch, the second
\* from the cache; or a primary call and a call whose fetch failed.
C17_Witness ==
  /\ Len(calls) = 2
  /\ \A n \in 1..2 : calls[n].pc = "done" /\ calls[n].nResult + calls[n].nError = 1
  /\ \/ calls[1].path = "fetch" /\ calls[1].nResult = 1 /\ calls[2].path = "cache"
     \/ calls[1].path = "primary" /\ calls[2].path = "fetch" /\ calls[2].nError = 1

\* The bucket of a time: the multiple m of the interval with m <= t < m + interval
\* (an interval is 300 s or more, so that the multiples up to MaxTick do).
bucketOf(t, interval) ==
  CHOOSE m \in {k * interval : k \in 0..MaxTick} : m <= t /\ t < m + interval

\* The positions in rawBars of the bars of the bucket at time t.
members(t) ==
  {n \in DOMAIN rawBars : bucketOf(rawBars[n].time, intervalSec(resolution)) = t}

first(ns) == CHOOSE n \in ns : \A m \in ns : n <= m
last(ns) == CHOOSE n \in ns : \A m \in ns : n >= m

\* C15: aggregateBars returns one bar for every bucket that holds an input bar,
\* in strictly ascending order of bucket time, whose open is that of the first
\* input bar of the bucket in iteration order, whose high is the greatest high,
\* whose low is the least low, whose close is that of the last input bar and
\* whose volume is the sum of the volumes.
C15_BucketSemantics ==
  phase \in {"once", "twice"} =>
    /\ StrictlyAscending(aggregated)
    /\ {a.time : a \in Range(aggregated)}
         = {bucketOf(b.time, intervalSec(resolution)) : b \in Range(rawBars)}
    /\ \A a \in Range(aggregated) :
         LET ns == members(a.time)
         IN /\ a.open = rawBars[first(ns)].open
            /\ a.close = rawBars[last(ns)].close
            /\ \E n \in ns : a.high = rawBars[n].high
            /\ \A n \in ns : a.high >= rawBars[n].high
            /\ \E n \in ns : a.low = rawBars[n].low
            /\ \A n \in ns : a.low <= rawBars[n].low
            /\ a.volume = SumVolume(SelectSeq(rawBars,
                  LAMBDA b : bucketOf(b.time, intervalSec(resolution)) = a.time))

\* Two buckets, met out of order, one of them with bars of different shapes.
C15_Witness ==
  /\ phase = "once"
  /\ Len(aggregated) = 2
  /\ ~Ascending(rawBars)
  /\ \E a \in Range(aggregated) :
       /\ Cardinality(members(a.time)) = 2
       /\ rawBars[first(members(a.time))].close # rawBars[last(members(a.time))].close
       /\ rawBars[first(members(a.time))].high # rawBars[last(members(a.time))].high

\* The bars of the aggregate that a window selects, as getBars delivers them.
selected(agg, from, to) ==
  {[b EXCEPT !.time = b.time * 1000] : b \in {c \in Range(agg) : from <= c.time /\ c.time <= to}}

\* C13: the bars given to onResult are exactly the aggregated bars whose bucket
\* time t has from <= t <= to, each with time t * 1000 and its open, high, low,
\* close and volume unchanged, in strictly ascending order of time.
C13_WindowInMilliseconds ==
  \A n \in delivered :
    LET r == calls[n].result
    IN /\ Range(r.bars) = selected(r.aggregated, calls[n].from, calls[n].to)
       /\ StrictlyAscending(r.bars)
       /\ \A b \in Range(r.bars) :
            \E c \in Range(r.aggregated) :
              /\ b.time = c.time * 1000
              /\ <<b.open, b.high, b.low, b.close, b.volume>>
                   = <<c.open, c.high, c.low, c.close, c.volume>>

\* A window that starts at a bar, ends at a bar and leaves a bar out.
C13_Witness ==
  \E n \in delivered :
    LET r == calls[n].result
    IN /\ Len(r.bars) >= 2 /\ Len(r.bars) < Len(r.aggregated)
       /\ r.bars[1].time = calls[n].from * 1000
       /\ r.bars[Len(r.bars)].time = calls[n].to * 1000

-----------------------------------------------------------------------------
(* The compare ticker codec on its own: a ticker is either built from a    *)
(* pool name, a network and an address and then parsed, or it is a raw     *)
(* string that is parsed.                                                  *)

\* Longest run of address characters in a sampled address or raw ticker.
MaxFill == 8
\* Most pieces a raw ticker is put together from.
MaxPieces == 5

Fill(k) == [n \in 1..k |-> "x"]

\* What is put before and after the body of a sampled network or address.
Affixes == {<<>>, <<" ">>, <<" ", "/">>, <<"/", " ">>, Separator}

CodecNames ==
  {<<"A">>, <<" ", "A", " ">>, <<"A">> \o Separator \o <<"B">>, <<"A", " ", "/">>, <<>>}

\* The non-empty networks.
CodecNetworks ==
  {pre \o mid \o post : pre \in Affixes, mid \in {<<>>, <<"e">>}, post \in Affixes}
    \ {<<>>}

\* The addresses of 8 characters and more.
CodecAddresses ==
  {a \in {pre \o Fill(k) \o post :
            pre \in Affixes, k \in (MaxFill - 2)..MaxFill, post \in Affixes} :
     Len(a) >= 8}

TickerPieces == {<<" ">>, <<"/">>, Separator, <<"e">>, Fill(MaxFill - 1), Fill(MaxFill)}

RECURSIVE concat(_)
concat(pieces) == IF pieces = <<>> THEN <<>> ELSE Head(pieces) \o concat(Tail(pieces))

RawTickers == {concat(ps) : ps \in SeqsUpTo(TickerPieces, MaxPieces)}

InitCodec ==
  /\ \/ \E name \in CodecNames, net \in CodecNetworks, addr \in CodecAddresses :
          codec = [step |-> "args", built |-> TRUE, poolName |-> name,
                   network |-> net, address |-> addr, ticker |-> <<>>,
                   parsed |-> NoTicker]
     \/ \E t \in RawTickers :
          codec = [step |-> "ticker", built |-> FALSE, poolName |-> <<>>,
                   network |-> <<>>, address |-> <<>>, ticker |-> t,
                   parsed |-> NoTicker]
  /\ format = [step |-> "idle"]
  /\ minuteData = <<>> /\ hourData = <<>> /\ dayData = <<>>
  /\ IdleFns /\ IdleFeed /\ IdleTimer

Build ==
  /\ codec.step = "args"
  /\ codec' = [codec EXCEPT
       !.step = "ticker",
       !.ticker = buildCompareTicker(codec.poolName, codec.network, codec.address)]
  /\ UNCHANGED <<fnVars, propVars, feedVars, timerVars, format>>

Parse ==
  /\ codec.step = "ticker"
  /\ codec' = [codec EXCEPT !.step = "parsed",
                            !.parsed = parseCompareTicker(codec.ticker)]
  /\ UNCHANGED <<fnVars, propVars, feedVars, timerVars, format>>

NextCodec == Build \/ Parse

SpecCodec == InitCodec /\ [][NextCodec]_vars

contains(str, sub) ==
  \E n \in 1..(Len(str) - Len(sub) + 1) : SubSeq(str, n, n + Len(sub) - 1) = sub

endsWith(str, sub) ==
  Len(str) >= Len(sub) /\ SubSeq(str, Len(str) - Len(sub) + 1, Len(str)) = sub

roundTrips ==
  codec.parsed = [ok |-> TRUE, address |-> codec.address, network |-> codec.network]

\* C11 as stated: for any pool name, any non-empty network and any address of
\* 8 characters or more, parsing the built ticker returns exactly that address
\* and that network.
C11_RoundTripAny ==
  (codec.step = "parsed" /\ codec.built) => roundTrips

\* A network or an address the parser reads back unchanged: no white space at
\* its ends and no separator inside.
plain(str) == trim(str) = str /\ ~contains(str, Separator)

\* C11: parsing the built ticker returns exactly the address and the network
\* when both are free of surrounding white space and of " / ", and neither the
\* trimmed pool name nor the network ends with " /"; the pool name
\* may itself contain " / ".
C11_RoundTrip ==
  (/\ codec.step = "parsed" /\ codec.built
   /\ plain(codec.network) /\ plain(codec.address)
   /\ ~endsWith(trim(codec.poolName), <<" ", "/">>)
   /\ ~endsWith(codec.network, <<" ", "/">>))
  => roundTrips

C11_Witness ==
  /\ codec.step = "parsed" /\ codec.built
  /\ contains(codec.poolName, Separator)
  /\ plain(codec.network) /\ plain(codec.address)
  /\ roundTrips

\* The segments of a ticker: the pieces between " / ", each trimmed.
segments(ticker) == [n \in DOMAIN split(ticker) |-> trim(split(ticker)[n])]

malformed(ticker) ==
  \/ trim(ticker) = <<>>
  \/ Len(segments(ticker)) < 3
  \/ Len(segments(ticker)[Len(segments(ticker))]) < 8
  \/ segments(ticker)[Len(segments(ticker)) - 1] = <<>>

\* C12: parseCompareTicker returns null for an empty or blank ticker, for one
\* of fewer than 3 segments, for a last segment of fewer than 8 characters and
\* for an empty segment before the last, and a result only when none of these
\* holds; the result is the last two segments.
C12_NullIffMalformed ==
  codec.step = "parsed" =>
    /\ codec.parsed.ok <=> ~malformed(codec.ticker)
    /\ ~codec.parsed.ok => codec.parsed = NoTicker
    /\ codec.parsed.ok =>
         /\ codec.parsed.address = segments(codec.ticker)[Len(segments(codec.ticker))]
         /\ codec.parsed.network = segments(codec.ticker)[Len(segments(codec.ticker)) - 1]

C12_Witness ==
  /\ codec.step = "parsed" /\ ~codec.built
  /\ Len(segments(codec.ticker)) >= 3
  /\ Len(segments(codec.ticker)[Len(segments(codec.ticker))]) >= 8
  /\ segments(codec.ticker)[Len(segments(codec.ticker)) - 1] = <<>>
  /\ ~codec.parsed.ok

-----------------------------------------------------------------------------
(* The price formatter.  A number is a decimal numeral: [kind, neg, int,   *)
(* frac] with the digits before and after the point, int without leading   *)
(* and frac without trailing zeros (the code's are binary floating point;  *)
(* the rounding of the decimal literal to a double is outside this model). *)
(* A subscript digit is written as the character "_" and the digit in one  *)
(* string.                                                                 *)

\* Number.prototype.toFixed gives up fixed notation from 10^21 on.
ExponentialFrom == 21
\* The sampled large prices are 10^k for k up to MaxExponent.
MaxExponent == 22

digitChars == <<"0", "1", "2", "3", "4", "5", "6", "7", "8", "9">>

SUBSCRIPT_DIGITS == <<"_0", "_1", "_2", "_3", "_4", "_5", "_6", "_7", "_8", "_9">>

toChars(ds) == [n \in DOMAIN ds |-> digitChars[ds[n] + 1]]

\* The decimal digits of a natural number.
RECURSIVE digitsOf(_)
digitsOf(n) == IF n < 10 THEN <<n>> ELSE digitsOf(n \div 10) \o <<n % 10>>

\* String(n).split("").map((c) => SUBSCRIPT_DIGITS[c] ?? c).join("")
toSubscript(n) == [i \in DOMAIN digitsOf(n) |-> SUBSCRIPT_DIGITS[digitsOf(n)[i] + 1]]

isZero(x) == x.int = <<>> /\ x.frac = <<>>

\* The numeral plus one unit in its last place.
RECURSIVE addOne(_)
addOne(ds) ==
  IF ds = <<>> THEN <<1>>
  ELSE IF ds[Len(ds)] = 9 THEN addOne(SubSeq(ds, 1, Len(ds) - 1)) \o <<0>>
  ELSE SubSeq(ds, 1, Len(ds) - 1) \o <<ds[Len(ds)] + 1>>

\* The digits of x with d digits after the point, rounded half up.
rounded(x, d) ==
  LET all == x.int \o [n \in 1..d |-> IF n <= Len(x.frac) THEN x.frac[n] ELSE 0]
  IN IF Len(x.frac) > d /\ x.frac[d + 1] >= 5 THEN addOne(all) ELSE all

RECURSIVE dropTrailing(_, _)
dropTrailing(str, ch) ==
  IF str # <<>> /\ str[Len(str)] = ch
    THEN dropTrailing(SubSeq(str, 1, Len(str) - 1), ch)
    ELSE str

\* Number::toString of a number from 10^21 on: d.ddde+n
toExponential(x) ==
  LET sig == toChars(dropTrailing(x.int \o x.frac, 0))
  IN <<Head(sig)>> \o (IF Len(sig) > 1 THEN <<".">> \o Tail(sig) ELSE <<>>)
       \o <<"e", "+">> \o toChars(digitsOf(Len(x.int) - 1))

\* absPrice.toFixed(d)
toFixed(x, d) ==
  IF Len(x.int) > ExponentialFrom THEN toExponential(x)
  ELSE LET r == rounded(x, d)
           whole == SubSeq(r, 1, Len(r) - d)
       IN (IF whole = <<>> THEN <<"0">> ELSE toChars(whole))
            \o (IF d > 0 THEN <<".">> \o toChars(SubSeq(r, Len(r) - d + 1, Len(r)))
                         ELSE <<>>)

\* .replace(/\.?0+$/, ""): the zeros at the end and a point before them.
stripZeros(str) ==
  LET cut == dropTrailing(str, "0")
  IN IF cut = str THEN str
     ELSE IF cut # <<>> /\ cut[Len(cut)] = "." THEN SubSeq(cut, 1, Len(cut) - 1)
     ELSE cut

\* fixedStr.split(".")[1] ?? ""
RECURSIVE afterPoint(_)
afterPoint(str) ==
  IF str = <<>> THEN <<>>
  ELSE IF Head(str) = "." THEN
    LET rest == Tail(str)
        stop == {n \in DOMAIN rest : rest[n] = "."}
    IN IF stop = {} THEN rest
       ELSE SubSeq(rest, 1, (CHOOSE n \in stop : \A m \in stop : n <= m) - 1)
  ELSE afterPoint(Tail(str))

\* The loop that counts the "0" characters at the start.
RECURSIVE countLeadingZeros(_)
countLeadingZeros(str) ==
  IF str # <<>> /\ Head(str) = "0" THEN 1 + countLeadingZeros(Tail(str)) ELSE 0

\* String.prototype.slice(a, b) for 0 <= a <= b.
slice(str, a, b) == SubSeq(str, a + 1, IF b < Len(str) THEN b ELSE Len(str))

\* A plausible slip: the "+" for every price when the flag is set.
signIgnoringPrice(price, signPositive) == IF signPositive THEN <<"+">> ELSE <<>>

\* signPositive && price > 0 ? "+" : ""
sign(price, signPositive) ==
  IF signPositive /\ ~price.neg /\ ~isZero(price) THEN <<"+">> ELSE <<>>

\* isNegative ? "-" : ""
negSign(price) == IF price.neg /\ ~isZero(price) THEN <<"-">> ELSE <<>>

\* absPrice >= 0.001
atLeastThousandth(x) ==
  x.int # <<>> \/ \E n \in 1..3 : n <= Len(x.frac) /\ x.frac[n] # 0

\* The tiers of the number of decimals.
decimalsOf(x) ==
  IF Len(x.int) >= 4 THEN 2
  ELSE IF x.int # <<>> THEN 4
  ELSE IF x.frac # <<>> /\ x.frac[1] # 0 THEN 5
  ELSE 6

formatCryptoPrice(price, signPositive) ==
  IF price.kind # "finite" THEN <<"0">>
  ELSE IF isZero(price) THEN sign(price, signPositive) \o <<"0">>
  ELSE IF atLeastThousandth(price)
    THEN sign(price, signPositive) \o negSign(price)
           \o stripZeros(toFixed(price, decimalsOf(price)))
  ELSE
    LET afterDecimal == afterPoint(toFixed(price, 20))
        leadingZeros == countLeadingZeros(afterDecimal)
        sigDigits == dropTrailing(slice(afterDecimal, leadingZeros, leadingZeros + 4), "0")
        significandRaw == IF sigDigits = <<>> THEN <<"0">> ELSE sigDigits
    IN IF leadingZeros > 3
         THEN sign(price, signPositive) \o negSign(price) \o <<"0", ".", "0">>
                \o toSubscript(leadingZeros) \o significandRaw
         ELSE sign(price, signPositive) \o negSign(price)
                \o stripZeros(toFixed(price, leadingZeros + 4))

Zeros(k) == [n \in 1..k |-> 0]

\* The digits before the point of the sampled prices: 0, 1, 999, 1234 and the
\* powers of ten around 10^21.
SampleInts ==
  {<<>>, <<1>>, <<9, 9, 9>>, <<1, 2, 3, 4>>}
    \cup {<<1>> \o Zeros(k) : k \in (ExponentialFrom - 1)..MaxExponent}

\* The digits after the point: none, .5, .05, .001, .0005, .000000942,
\* .99995, .9999995 and 10^-22.
SampleFracs ==
  {<<>>, <<5>>, <<0, 5>>, <<0, 0, 1>>, <<0, 0, 0, 5>>,
   <<0, 0, 0, 0, 0, 0, 9, 4, 2>>, <<9, 9, 9, 9, 5>>, <<9, 9, 9, 9, 9, 9, 5>>,
   Zeros(21) \o <<1>>}

Prices ==
  {[kind |-> "finite", neg |-> s, int |-> i, frac |-> f] :
     s \in BOOLEAN, i \in SampleInts, f \in SampleFracs}
    \cup {[kind |-> k, neg |-> s, int |-> <<>>, frac |-> <<>>] :
            k \in {"NaN", "Infinity"}, s \in BOOLEAN}

InitFormat ==
  /\ \E price \in Prices, signPositive \in BOOLEAN :
       format = [step |-> "input", price |-> price, signPositive |-> signPositive,
                 output |-> <<>>]
  /\ codec = [step |-> "idle"]
  /\ minuteData = <<>> /\ hourData = <<>> /\ dayData = <<>>
  /\ IdleFns /\ IdleFeed /\ IdleTimer

Format ==
  /\ format.step = "input"
  /\ format' = [format EXCEPT
       !.step = "formatted",
       !.output = formatCryptoPrice(format.price, format.signPositive)]
  /\ UNCHANGED <<fnVars, propVars, feedVars, timerVars, codec>>

NextFormat == Format

SpecFormat == InitFormat /\ [][NextFormat]_vars

startsWith(str, ch) == str # <<>> /\ Head(str) = ch

has(str, ch) == \E n \in DOMAIN str : str[n] = ch

\* A finite price other than zero has been formatted.
formattedNonZero ==
  /\ format.step = "formatted"
  /\ format.price.kind = "finite"
  /\ ~isZero(format.price)

\* C14 as stated: for a finite non-zero price the output starts with "+"
\* exactly when signPositive is set and the price is positive, starts with "-"
\* exactly when the price is negative, never contains both characters, and
\* contains no "+" when the price is negative.
C14_SignAnywhere ==
  formattedNonZero =>
    /\ startsWith(format.output, "+") <=> (format.signPositive /\ ~format.price.neg)
    /\ startsWith(format.output, "-") <=> format.price.neg
    /\ ~(has(format.output, "+") /\ has(format.output, "-"))
    /\ format.price.neg => ~has(format.output, "+")

\* C14: for a finite non-zero price the output starts with "+" exactly when
\* signPositive is set and the price is positive and with "-" exactly when the
\* price is negative; below 10^21 in magnitude it never contains both
\* characters and contains no "+" when the price is negative.
C14_SignPrefix ==
  formattedNonZero =>
    /\ startsWith(format.output, "+") <=> (format.signPositive /\ ~format.price.neg)
    /\ startsWith(format.output, "-") <=> format.price.neg
    /\ Len(format.price.int) <= ExponentialFrom =>
         /\ ~(has(format.output, "+") /\ has(format.output, "-"))
         /\ format.price.neg => ~has(format.output, "+")

\* -0.05 with the flag set is formatted as "-0.05".
C14_Witness ==
  /\ formattedNonZero
  /\ format.signPositive /\ format.price.neg
  /\ format.price.int = <<>> /\ format.price.frac = <<0, 5>>
  /\ format.output = <<"-", "0", ".", "0", "5">>

====
